---------------------------- MODULE Spec2Model ----------------------------
(***************************************************************************)
(* Model of examples/fifo_output.c: a mutex-guarded byte ring (struct      *)
(* fifo_t with fifo_wblock / fifo_rblock / fifo_used), the drain loop      *)
(* membuf_flush and the zf_log output callback custom_output_callback.     *)
(*                                                                         *)
(* Threads run the C functions step by step; a step is the code between    *)
(* two points where another thread can observe a difference (lock, each    *)
(* store to a shared field, unlock, each write to the sink).               *)
(*                                                                         *)
(* Two drivers share the same functions:                                   *)
(*   Spec      threads call custom_output_callback (submit) and            *)
(*             membuf_flush (drain), as main() and zf_log do;              *)
(*   RingSpec  threads call fifo_wblock, fifo_rblock and fifo_used         *)
(*             directly with arbitrary lengths.                            *)
(* SoloSpec is Spec with one thread, FairSpec is Spec with a fair          *)
(* scheduler, CtorSpec is RingSpec after init_fifo with any capacity and   *)
(* any raw buffer length.                                                  *)
(*                                                                         *)
(* The code never inspects the bytes it moves, so message bodies are made  *)
(* of fresh, pairwise distinct byte values (a stamp counter): any          *)
(* reordering, loss or duplication is then visible in the data itself.     *)
(* uint arithmetic is modelled in the integers: a wrap below 0 shows as a  *)
(* negative number.                                                        *)
(***************************************************************************)
EXTENDS Integers, Sequences, FiniteSets, TLC

\* ------------------------------------------------------------- bounds
\* FIFO_SIZE (8*1024 in the source) and MEMBUF_CHUNKS (4*1024) scaled down.
FIFO_SIZE == 3
MEMBUF_CHUNKS == 2
\* Number of threads, of which the first NRingThreads drive the ring alone
\* in RingSpec; longest message / read request; total number of calls of
\* custom_output_callback and membuf_flush (Spec) and of the fifo functions
\* (RingSpec); number of sink writes that may fail.
NThreads == 2
NRingThreads == 1
MaxLen == 4
MaxCalls == 2
MaxOps == 4
MaxSinkFails == 1

Min(a, b) == IF a < b THEN a ELSE b

Threads == 1..NThreads
RingThreads == 1..Min(NRingThreads, NThreads)
NoThread == 0

\* '\n', appended to every message by custom_output_callback.
NL == 10
\* Indeterminate content of the never-written raw buffer (uint8_t fifobuf[]
\* on main's stack) and of tempbuf: a symbolic value that is no byte.
UNINIT == -1
\* The two diagnostic texts membuf_flush prints into out_file.
FATAL_READ == -2
FATAL_WRITE == -3

VARIABLES
    siz, rp, wp, used, data, \* struct fifo_t (mtx is below)
    mtxOwner, mtxCount,    \* the CRITICAL_SECTION behind fifo->mtx
    out_file,              \* what the sink (membuf->out_file) has received
    pc, frame,             \* per thread: position and locals
    calls, stamp, sinkFails, \* driver: calls made, bytes made, sink failures
    wlog, rlog,            \* history: the accepted writes / reads, in order
    retlog                 \* history: the returns of custom_output_callback
                           \* and membuf_flush, in order

vars == <<siz, rp, wp, used, data, mtxOwner, mtxCount, out_file, pc, frame,
          calls, stamp, sinkFails, wlog, rlog, retlog>>

fifo == <<rp, wp, used, data>>
mtx == <<mtxOwner, mtxCount>>
hist == <<wlog, rlog, retlog>>

\* ------------------------------------------------------------ helpers

\* The bytes logically held: [rp, rp+used) modulo siz, oldest first.
Held == [i \in 1..used |-> data[(rp + i - 1) % siz]]

HeldOf(s) == [i \in 1..s.used |-> s.data[(s.rp + i - 1) % siz]]

Snapshot == [used |-> used, rp |-> rp, wp |-> wp, data |-> data]
NoSnapshot == [used |-> 0, rp |-> 0, wp |-> 0, data |-> <<>>]

\* Concatenation of a sequence of byte sequences.
RECURSIVE Cat(_)
Cat(ss) == IF ss = <<>> THEN <<>> ELSE Head(ss) \o Cat(Tail(ss))

\* How many times thread t holds the (recursive) critical section.
HeldBy(t) == IF mtxOwner = t THEN mtxCount ELSE 0

\* Locals of one thread.  caller: who called the fifo function that is
\* running ("top", "cb" = custom_output_callback, "fl" = membuf_flush).
\* pre, entryHeld, drain0, deq, queries, iters, tries are history of the
\* running call: the ring when the lock was taken, the holds of the lock
\* at the call, the bytes fifo_used reported to membuf_flush, how many of
\* them fifo_rblock has handed over, the calls of fifo_used, the
\* iterations of the while loop begun, the calls of fifo_wblock.
Frame0 ==
    [caller |-> "top", src |-> <<>>, len |-> 0, done |-> 0, idx |-> 0,
     dest |-> <<>>, remsiz |-> 0, oneshot |-> 0, ret |-> 0,
     pre |-> NoSnapshot, entryHeld |-> 0, drain0 |-> <<>>, deq |-> 0,
     queries |-> 0, iters |-> 0, tries |-> 0]

FreshBytes(n) == [i \in 1..n |-> NL + stamp + i]

\* ------------------------------------------------------ mutex wrappers
\* Mutant: a lock that excludes nobody.
diag_os_lock_noexclusion(t) ==
    /\ mtxOwner' = t
    /\ mtxCount' = mtxCount + 1

\* EnterCriticalSection: blocks while another thread owns the section;
\* the owner re-enters and the recursion count goes up.
diag_os_lock(t) ==
    /\ mtxOwner \in {NoThread, t}
    /\ mtxOwner' = t
    /\ mtxCount' = mtxCount + 1

\* LeaveCriticalSection: the section is free again when the count is 0.
diag_os_unlock(t) ==
    /\ mtxOwner = t
    /\ mtxCount' = mtxCount - 1
    /\ mtxOwner' = IF mtxCount = 1 THEN NoThread ELSE t

\* ----------------------------------------------------------- init_fifo
\* init_fifo(fifo, n, rawbuf) with rawbuf an array of m bytes: the fields
\* are stored as given, nothing is checked and nothing is returned.
init_fifo(n, m) ==
    /\ mtxOwner = NoThread
    /\ mtxCount = 0
    /\ rp = 0
    /\ wp = 0
    /\ siz = n
    /\ used = 0
    /\ data = [i \in 0..(m - 1) |-> UNINIT]

\* The driver before its first call.
DriverInit ==
    /\ out_file = <<>>
    /\ pc = [t \in Threads |-> "idle"]
    /\ frame = [t \in Threads |-> Frame0]
    /\ calls = 0
    /\ stamp = 0
    /\ sinkFails = 0
    /\ wlog = <<>>
    /\ rlog = <<>>
    /\ retlog = <<>>

\* main(): uint8_t fifobuf[FIFO_SIZE]; init_fifo(&membuf.fifo, FIFO_SIZE,
\* fifobuf);
Init == init_fifo(FIFO_SIZE, FIFO_SIZE) /\ DriverInit

\* A copy loop that touches a cell outside rawbuf: the behaviour of the
\* program is undefined from there on and is not followed further.
OutOfBounds(idx, len) ==
    \E k \in 0..(len - 1) : ((idx + k) % siz) \notin DOMAIN data

\* Return from fifo_wblock / fifo_rblock / fifo_used to the caller with
\* value v: to the driver, to custom_output_callback's test of
\* fifo_wblock's result, or to membuf_flush's test of fifo_rblock's.
Return(t, v) ==
    IF frame[t].caller = "top"
    THEN /\ pc' = [pc EXCEPT ![t] = "idle"]
         /\ frame' = [frame EXCEPT ![t] = Frame0]
    ELSE /\ pc' = [pc EXCEPT ![t] =
                     IF frame[t].caller = "cb" THEN "cb_chk" ELSE "fl_rchk"]
         /\ frame' = [frame EXCEPT ![t].ret = v, ![t].pre = NoSnapshot,
                                   ![t].done = 0, ![t].idx = 0]

\* "return;" from membuf_flush or custom_output_callback to its caller.
\* Both functions are void, whichever return statement is taken: the
\* caller is handed nothing.  how names the return statement taken
\* ("completed": the while loop ended; "aborted": after a FATAL text;
\* "dropped": fifo_wblock did not take the message).
ReturnVoid(t, how) ==
    /\ pc' = [pc EXCEPT ![t] = "idle"]
    /\ frame' = [frame EXCEPT ![t] = Frame0]
    /\ retlog' = Append(retlog, [how |-> how, result |-> "void",
                                 msg |-> frame[t].src])

\* ---------------------------------------------------------- fifo_used
fifo_used_lock(t) ==
    /\ pc[t] = "u_lock"
    /\ diag_os_lock(t)
    /\ pc' = [pc EXCEPT ![t] = "u_ret"]
    /\ UNCHANGED <<siz, fifo, out_file, frame, calls, stamp, sinkFails, hist>>

\* "return fifo->used;" : the diag_os_unlock that follows it in the source
\* is never executed.
fifo_used_ret(t) ==
    /\ pc[t] = "u_ret"
    /\ IF frame[t].caller = "top"
       THEN Return(t, used)
       ELSE /\ pc' = [pc EXCEPT ![t] = "fl_loop"]
            /\ frame' = [frame EXCEPT ![t].remsiz = used,
                                      ![t].drain0 = Held, ![t].deq = 0,
                                      ![t].queries = @ + 1]
    /\ UNCHANGED <<siz, fifo, mtx, out_file, calls, stamp, sinkFails, hist>>

\* --------------------------------------------------------- fifo_wblock
\* Mutant: the write index wraps one cell too early (wp == siz - 1).
RECURSIVE wloop_earlywrap(_, _, _, _)
wloop_earlywrap(d, w, src, done) ==
    IF done < Len(src)
    THEN wloop_earlywrap([d EXCEPT ![w] = src[done + 1]],
               IF w + 1 >= siz - 1 THEN 0 ELSE w + 1, src, done + 1)
    ELSE [data |-> d, wp |-> w, done |-> done]

\* The bytewise copy loop: data[wp] = *src; wp++; src++; wrap at siz.
RECURSIVE wloop(_, _, _, _)
wloop(d, w, src, done) ==
    IF done < Len(src)
    THEN wloop([d EXCEPT ![w] = src[done + 1]],
               IF w + 1 = siz THEN 0 ELSE w + 1, src, done + 1)
    ELSE [data |-> d, wp |-> w, done |-> done]

fifo_wblock_lock(t) ==
    /\ pc[t] = "w_lock"
    /\ diag_os_lock(t)
    /\ pc' = [pc EXCEPT ![t] = "w_check"]
    /\ frame' = [frame EXCEPT ![t].pre = Snapshot, ![t].tries = @ + 1]
    /\ UNCHANGED <<siz, fifo, out_file, calls, stamp, sinkFails, hist>>

\* Mutant: the room check lets through a write one byte too long.
wblock_rejects_off(len) == (siz - used) + 1 < len

\* Mutant: the room check turns down a write that fits exactly.
wblock_rejects_strict(len) == (siz - used) <= len

\* if ((fifo->siz - fifo->used) < len) { done = 0; goto exit; }
wblock_rejects(len) == (siz - used) < len

\* Mutant: the copy loop runs before the room check, so a rejected write
\* has already stored its bytes.
fifo_wblock_check_late(t) ==
    /\ pc[t] = "w_check"
    /\ IF (siz - used) < Len(frame[t].src)
       THEN /\ pc' = [pc EXCEPT ![t] = "w_exit"]
            /\ frame' = [frame EXCEPT ![t].done = 0]
            /\ data' = wloop(data, wp, frame[t].src, 0).data
       ELSE /\ pc' = [pc EXCEPT ![t] = "w_copy"]
            /\ frame' = [frame EXCEPT ![t].idx = wp]
            /\ data' = data
    /\ UNCHANGED <<siz, rp, wp, used, mtx, out_file, calls, stamp, sinkFails,
                   hist>>

fifo_wblock_check(t) ==
    /\ pc[t] = "w_check"
    /\ IF wblock_rejects(Len(frame[t].src))
       THEN /\ pc' = [pc EXCEPT ![t] = "w_exit"]
            /\ frame' = [frame EXCEPT ![t].done = 0]
       ELSE /\ pc' = [pc EXCEPT ![t] = "w_copy"]
            /\ frame' = [frame EXCEPT ![t].idx = wp]
    /\ UNCHANGED <<siz, fifo, mtx, out_file, calls, stamp, sinkFails, hist>>

fifo_wblock_copy(t) ==
    /\ pc[t] = "w_copy"
    /\ IF OutOfBounds(frame[t].idx, Len(frame[t].src))
       THEN /\ pc' = [pc EXCEPT ![t] = "undefined"]
            /\ UNCHANGED <<data, frame>>
       ELSE LET r == wloop(data, frame[t].idx, frame[t].src, 0) IN
            /\ data' = r.data
            /\ frame' = [frame EXCEPT ![t].idx = r.wp, ![t].done = r.done]
            /\ pc' = [pc EXCEPT ![t] = "w_wp"]
    /\ UNCHANGED <<siz, rp, wp, used, mtx, out_file, calls, stamp, sinkFails, hist>>

\* fifo->wp = wp;
fifo_wblock_wp(t) ==
    /\ pc[t] = "w_wp"
    /\ wp' = frame[t].idx
    /\ pc' = [pc EXCEPT ![t] = "w_used"]
    /\ UNCHANGED <<siz, rp, used, data, mtx, out_file, frame, calls, stamp,
                   sinkFails, hist>>

\* fifo->used += len;
fifo_wblock_used(t) ==
    /\ pc[t] = "w_used"
    /\ used' = used + Len(frame[t].src)
    /\ pc' = [pc EXCEPT ![t] = "w_exit"]
    /\ UNCHANGED <<siz, rp, wp, data, mtx, out_file, frame, calls, stamp,
                   sinkFails, hist>>

\* exit: diag_os_unlock(fifo->mtx); return done;
\* The write is accepted when the value returned is the length asked for.
fifo_wblock_exit(t) ==
    /\ pc[t] = "w_exit"
    /\ diag_os_unlock(t)
    /\ wlog' = IF frame[t].done = Len(frame[t].src)
               THEN Append(wlog, frame[t].src) ELSE wlog
    /\ Return(t, frame[t].done)
    /\ UNCHANGED <<siz, fifo, out_file, calls, stamp, sinkFails, rlog,
                   retlog>>

\* --------------------------------------------------------- fifo_rblock
\* Mutant: dest is not advanced, every byte lands in dest[0].
RECURSIVE rloop_nodestinc(_, _, _, _, _)
rloop_nodestinc(d, r, dest, done, len) ==
    IF done < len
    THEN rloop_nodestinc(d, IF r + 1 = siz THEN 0 ELSE r + 1,
               [dest EXCEPT ![1] = d[r]], done + 1, len)
    ELSE [dest |-> dest, rp |-> r, done |-> done]

\* Mutant: the read index wraps one cell too early (rp == siz - 1).
RECURSIVE rloop_earlywrap(_, _, _, _, _)
rloop_earlywrap(d, r, dest, done, len) ==
    IF done < len
    THEN rloop_earlywrap(d, IF r + 1 >= siz - 1 THEN 0 ELSE r + 1,
               [dest EXCEPT ![done + 1] = d[r]], done + 1, len)
    ELSE [dest |-> dest, rp |-> r, done |-> done]

\* The read loop: *dest = data[rp]; dest++; rp++; wrap at siz.
RECURSIVE rloop(_, _, _, _, _)
rloop(d, r, dest, done, len) ==
    IF done < len
    THEN rloop(d, IF r + 1 = siz THEN 0 ELSE r + 1,
               [dest EXCEPT ![done + 1] = d[r]], done + 1, len)
    ELSE [dest |-> dest, rp |-> r, done |-> done]

fifo_rblock_lock(t) ==
    /\ pc[t] = "r_lock"
    /\ diag_os_lock(t)
    /\ pc' = [pc EXCEPT ![t] = "r_check"]
    /\ frame' = [frame EXCEPT ![t].pre = Snapshot]
    /\ UNCHANGED <<siz, fifo, out_file, calls, stamp, sinkFails, hist>>

\* Mutant: the data check lets through a read one byte too long.
rblock_rejects_off(len) == used + 1 < len

\* if (fifo->used < len) { done = 0; goto exit; }
rblock_rejects(len) == used < len

\* rp = fifo->rp; then the check.
fifo_rblock_check(t) ==
    /\ pc[t] = "r_check"
    /\ IF rblock_rejects(frame[t].len)
       THEN /\ pc' = [pc EXCEPT ![t] = "r_exit"]
            /\ frame' = [frame EXCEPT ![t].idx = rp, ![t].done = 0]
       ELSE /\ pc' = [pc EXCEPT ![t] = "r_copy"]
            /\ frame' = [frame EXCEPT ![t].idx = rp]
    /\ UNCHANGED <<siz, fifo, mtx, out_file, calls, stamp, sinkFails, hist>>

fifo_rblock_copy(t) ==
    /\ pc[t] = "r_copy"
    /\ IF OutOfBounds(frame[t].idx, frame[t].len)
       THEN /\ pc' = [pc EXCEPT ![t] = "undefined"]
            /\ frame' = frame
       ELSE LET r == rloop(data, frame[t].idx, frame[t].dest, 0,
                          frame[t].len) IN
            /\ frame' = [frame EXCEPT ![t].idx = r.rp, ![t].done = r.done,
                                      ![t].dest = r.dest]
            /\ pc' = [pc EXCEPT ![t] = "r_rp"]
    /\ UNCHANGED <<siz, fifo, mtx, out_file, calls, stamp, sinkFails, hist>>

\* fifo->rp = rp;
fifo_rblock_rp(t) ==
    /\ pc[t] = "r_rp"
    /\ rp' = frame[t].idx
    /\ pc' = [pc EXCEPT ![t] = "r_used"]
    /\ UNCHANGED <<siz, wp, used, data, mtx, out_file, frame, calls, stamp,
                   sinkFails, hist>>

\* fifo->used -= len;
fifo_rblock_used(t) ==
    /\ pc[t] = "r_used"
    /\ used' = used - frame[t].len
    /\ pc' = [pc EXCEPT ![t] = "r_exit"]
    /\ UNCHANGED <<siz, rp, wp, data, mtx, out_file, frame, calls, stamp,
                   sinkFails, hist>>

\* exit: diag_os_unlock(fifo->mtx); return done;
fifo_rblock_exit(t) ==
    /\ pc[t] = "r_exit"
    /\ diag_os_unlock(t)
    /\ rlog' = IF frame[t].done = frame[t].len
               THEN Append(rlog, SubSeq(frame[t].dest, 1, frame[t].len))
               ELSE rlog
    /\ Return(t, frame[t].done)
    /\ UNCHANGED <<siz, fifo, out_file, calls, stamp, sinkFails, wlog,
                   retlog>>

\* The steps of the three fifo functions.
FifoStep(t) ==
    \/ fifo_used_lock(t)
    \/ fifo_used_ret(t)
    \/ fifo_wblock_lock(t)
    \/ fifo_wblock_check(t)
    \/ fifo_wblock_copy(t)
    \/ fifo_wblock_wp(t)
    \/ fifo_wblock_used(t)
    \/ fifo_wblock_exit(t)
    \/ fifo_rblock_lock(t)
    \/ fifo_rblock_check(t)
    \/ fifo_rblock_copy(t)
    \/ fifo_rblock_rp(t)
    \/ fifo_rblock_used(t)
    \/ fifo_rblock_exit(t)

\* ------------------------------------------- driver of the ring alone
CallWblock(t) ==
    /\ pc[t] = "idle"
    /\ calls < MaxOps
    /\ \E n \in 0..MaxLen :
         /\ frame' = [frame EXCEPT ![t] =
                [Frame0 EXCEPT !.src = FreshBytes(n),
                               !.entryHeld = HeldBy(t)]]
         /\ stamp' = stamp + n
    /\ pc' = [pc EXCEPT ![t] = "w_lock"]
    /\ calls' = calls + 1
    /\ UNCHANGED <<siz, fifo, mtx, out_file, sinkFails, hist>>

CallRblock(t) ==
    /\ pc[t] = "idle"
    /\ calls < MaxOps
    /\ \E n \in 0..MaxLen :
         frame' = [frame EXCEPT ![t] =
                [Frame0 EXCEPT !.len = n, !.dest = [i \in 1..n |-> UNINIT],
                               !.entryHeld = HeldBy(t)]]
    /\ pc' = [pc EXCEPT ![t] = "r_lock"]
    /\ calls' = calls + 1
    /\ UNCHANGED <<siz, fifo, mtx, out_file, stamp, sinkFails, hist>>

CallUsed(t) ==
    /\ pc[t] = "idle"
    /\ calls < MaxOps
    /\ frame' = [frame EXCEPT ![t] = [Frame0 EXCEPT !.entryHeld = HeldBy(t)]]
    /\ pc' = [pc EXCEPT ![t] = "u_lock"]
    /\ calls' = calls + 1
    /\ UNCHANGED <<siz, fifo, mtx, out_file, stamp, sinkFails, hist>>

RingNext ==
    \E t \in RingThreads :
        \/ CallWblock(t)
        \/ CallRblock(t)
        \/ CallUsed(t)
        \/ FifoStep(t)

RingSpec == Init /\ [][RingNext]_vars

\* The ring driven alone after init_fifo was called with any capacity n
\* and any raw buffer length m up to FIFO_SIZE.
CtorInit ==
    /\ \E n \in 0..FIFO_SIZE : \E m \in 0..FIFO_SIZE : init_fifo(n, m)
    /\ DriverInit

CtorSpec == CtorInit /\ [][RingNext]_vars

\* ------------------------------------------------------- membuf_flush
\* Mutant: the loop is left after its first iteration.
membuf_flush_loop_once(t) ==
    /\ pc[t] = "fl_loop"
    /\ IF frame[t].remsiz = 0 \/ frame[t].iters >= 1
       THEN ReturnVoid(t, "completed")
       ELSE LET oneshot == Min(frame[t].remsiz, MEMBUF_CHUNKS) IN
            /\ pc' = [pc EXCEPT ![t] = "r_lock"]
            /\ frame' = [frame EXCEPT ![t].oneshot = oneshot,
                             ![t].len = oneshot,
                             ![t].dest = [i \in 1..MEMBUF_CHUNKS |-> UNINIT],
                             ![t].caller = "fl",
                             ![t].entryHeld = HeldBy(t),
                             ![t].iters = @ + 1]
            /\ retlog' = retlog
    /\ UNCHANGED <<siz, fifo, mtx, out_file, calls, stamp, sinkFails, wlog,
                   rlog>>

\* Mutant: oneshot is not clamped to MEMBUF_CHUNKS.
membuf_flush_loop_noclamp(t) ==
    /\ pc[t] = "fl_loop"
    /\ IF frame[t].remsiz = 0
       THEN ReturnVoid(t, "completed")
       ELSE /\ pc' = [pc EXCEPT ![t] = "r_lock"]
            /\ frame' = [frame EXCEPT ![t].oneshot = frame[t].remsiz,
                             ![t].len = frame[t].remsiz,
                             ![t].dest = [i \in 1..MEMBUF_CHUNKS |-> UNINIT],
                             ![t].caller = "fl",
                             ![t].entryHeld = HeldBy(t),
                             ![t].iters = @ + 1]
            /\ retlog' = retlog
    /\ UNCHANGED <<siz, fifo, mtx, out_file, calls, stamp, sinkFails, wlog,
                   rlog>>

\* while (remsiz) { oneshot = min(remsiz, MEMBUF_CHUNKS);
\*                  fifo_rblock(&membuf->fifo, tempbuf, oneshot) ...
membuf_flush_loop(t) ==
    /\ pc[t] = "fl_loop"
    /\ IF frame[t].remsiz = 0
       THEN ReturnVoid(t, "completed")
       ELSE LET oneshot == Min(frame[t].remsiz, MEMBUF_CHUNKS) IN
            /\ pc' = [pc EXCEPT ![t] = "r_lock"]
            /\ frame' = [frame EXCEPT ![t].oneshot = oneshot,
                             ![t].len = oneshot,
                             ![t].dest = [i \in 1..MEMBUF_CHUNKS |-> UNINIT],
                             ![t].caller = "fl",
                             ![t].entryHeld = HeldBy(t),
                             ![t].iters = @ + 1]
            /\ retlog' = retlog
    /\ UNCHANGED <<siz, fifo, mtx, out_file, calls, stamp, sinkFails, wlog,
                   rlog>>

\* fprintf(membuf->out_file, ...): the diagnostic text goes to the sink
\* itself, and like any write to it may or may not arrive.
fprintf_out_file(text) ==
    \/ out_file' = Append(out_file, text)
    \/ out_file' = out_file

\* if (fifo_rblock(...) != oneshot) { fprintf(FATAL could not read fifo);
\*                                    return; }
membuf_flush_rchk(t) ==
    /\ pc[t] = "fl_rchk"
    /\ IF frame[t].ret # frame[t].oneshot
       THEN /\ fprintf_out_file(FATAL_READ)
            /\ ReturnVoid(t, "aborted")
       ELSE /\ out_file' = out_file
            /\ pc' = [pc EXCEPT ![t] = "fl_write"]
            /\ frame' = [frame EXCEPT ![t].deq = @ + frame[t].oneshot]
            /\ retlog' = retlog
    /\ UNCHANGED <<siz, fifo, mtx, calls, stamp, sinkFails, wlog, rlog>>

\* Mutant: after every chunk written the drain asks fifo_used again.
membuf_flush_write_requery(t) ==
    /\ pc[t] = "fl_write"
    /\ out_file' = out_file \o SubSeq(frame[t].dest, 1, frame[t].oneshot)
    /\ pc' = [pc EXCEPT ![t] = "u_lock"]
    /\ UNCHANGED <<siz, fifo, mtx, frame, calls, stamp, sinkFails, hist>>

\* Mutant: "remsiz -= oneshot" is missing, the loop asks for the same chunk
\* again.
membuf_flush_write_noadvance(t) ==
    /\ pc[t] = "fl_write"
    /\ out_file' = out_file \o SubSeq(frame[t].dest, 1, frame[t].oneshot)
    /\ pc' = [pc EXCEPT ![t] = "fl_loop"]
    /\ UNCHANGED <<siz, fifo, mtx, frame, calls, stamp, sinkFails, hist>>

\* fwrite(tempbuf, 1, oneshot, out_file): n items written, n returned; the
\* write has failed when n # oneshot.  On success: remsiz -= oneshot.
\* (printf("fc\n") and printf("dbg: ...") go to stdout, which is not the
\* sink and is not modelled.)
membuf_flush_write(t) ==
    /\ pc[t] = "fl_write"
    /\ \E n \in 0..frame[t].oneshot :
         /\ n # frame[t].oneshot => sinkFails < MaxSinkFails
         /\ out_file' = out_file \o SubSeq(frame[t].dest, 1, n)
         /\ IF n # frame[t].oneshot
            THEN /\ pc' = [pc EXCEPT ![t] = "fl_fail"]
                 /\ sinkFails' = sinkFails + 1
                 /\ frame' = frame
            ELSE /\ pc' = [pc EXCEPT ![t] = "fl_loop"]
                 /\ sinkFails' = sinkFails
                 /\ frame' = [frame EXCEPT
                                ![t].remsiz = @ - frame[t].oneshot]
    /\ UNCHANGED <<siz, fifo, mtx, calls, stamp, hist>>

\* Mutant: the return after the failed fwrite is missing, the loop goes on.
membuf_flush_fail_noreturn(t) ==
    /\ pc[t] = "fl_fail"
    /\ fprintf_out_file(FATAL_WRITE)
    /\ pc' = [pc EXCEPT ![t] = "fl_loop"]
    /\ frame' = [frame EXCEPT ![t].remsiz = @ - frame[t].oneshot]
    /\ UNCHANGED <<siz, fifo, mtx, calls, stamp, sinkFails, hist>>

\* fprintf(membuf->out_file, "\nFATAL : fwrite problem !\n"); return;
membuf_flush_fail(t) ==
    /\ pc[t] = "fl_fail"
    /\ fprintf_out_file(FATAL_WRITE)
    /\ ReturnVoid(t, "aborted")
    /\ UNCHANGED <<siz, fifo, mtx, calls, stamp, sinkFails, wlog, rlog>>

\* -------------------------------------------- custom_output_callback
\* Mutant: membuf_flush is called whether or not fifo_wblock took the
\* message.
custom_output_callback_chk_alwaysdrain(t) ==
    /\ pc[t] = "cb_chk"
    /\ pc' = [pc EXCEPT ![t] = "u_lock"]
    /\ frame' = [frame EXCEPT ![t].caller = "fl",
                              ![t].entryHeld = HeldBy(t)]
    /\ UNCHANGED <<siz, fifo, mtx, out_file, calls, stamp, sinkFails, hist>>

\* Mutant: a message fifo_wblock did not take is offered to it again.
custom_output_callback_chk_retry(t) ==
    /\ pc[t] = "cb_chk"
    /\ IF frame[t].ret # Len(frame[t].src)
       THEN /\ pc' = [pc EXCEPT ![t] = "w_lock"]
            /\ frame' = [frame EXCEPT ![t].caller = "cb"]
       ELSE /\ pc' = [pc EXCEPT ![t] = "u_lock"]
            /\ frame' = [frame EXCEPT ![t].caller = "fl",
                                      ![t].entryHeld = HeldBy(t)]
    /\ UNCHANGED <<siz, fifo, mtx, out_file, calls, stamp, sinkFails, hist>>

\* if (fifo_wblock(...) != msglen) return;   (dropped data)
\* membuf_flush(membuf);                     (first step: fifo_used)
custom_output_callback_chk(t) ==
    /\ pc[t] = "cb_chk"
    /\ IF frame[t].ret # Len(frame[t].src)
       THEN ReturnVoid(t, "dropped")
       ELSE /\ pc' = [pc EXCEPT ![t] = "u_lock"]
            /\ frame' = [frame EXCEPT ![t].caller = "fl",
                                      ![t].entryHeld = HeldBy(t)]
            /\ retlog' = retlog
    /\ UNCHANGED <<siz, fifo, mtx, out_file, calls, stamp, sinkFails, wlog,
                   rlog>>

DrainStep(t) ==
    \/ membuf_flush_loop(t)
    \/ membuf_flush_rchk(t)
    \/ membuf_flush_write(t)
    \/ membuf_flush_fail(t)
    \/ custom_output_callback_chk(t)

\* ------------------------------------------ driver of the whole program
\* zf_log calls custom_output_callback with a formatted message; the
\* callback stores '\n' at msg->p and passes msglen = (p - buf) + 1 bytes
\* to fifo_wblock.
Submit(t) ==
    /\ pc[t] = "idle"
    /\ calls < MaxCalls
    /\ \E n \in 0..(MaxLen - 1) :
         /\ frame' = [frame EXCEPT ![t] =
                [Frame0 EXCEPT !.src = Append(FreshBytes(n), NL),
                               !.caller = "cb",
                               !.entryHeld = HeldBy(t)]]
         /\ stamp' = stamp + n
    /\ pc' = [pc EXCEPT ![t] = "w_lock"]
    /\ calls' = calls + 1
    /\ UNCHANGED <<siz, fifo, mtx, out_file, sinkFails, hist>>

\* main() calls membuf_flush directly before closing the file.
Drain(t) ==
    /\ pc[t] = "idle"
    /\ calls < MaxCalls
    /\ frame' = [frame EXCEPT ![t] =
                [Frame0 EXCEPT !.caller = "fl", !.entryHeld = HeldBy(t)]]
    /\ pc' = [pc EXCEPT ![t] = "u_lock"]
    /\ calls' = calls + 1
    /\ UNCHANGED <<siz, fifo, mtx, out_file, stamp, sinkFails, hist>>

ThreadNext(t) ==
    \/ Submit(t)
    \/ Drain(t)
    \/ FifoStep(t)
    \/ DrainStep(t)

Next == \E t \in Threads : ThreadNext(t)

Spec == Init /\ [][Next]_vars

\* The program with one thread only (main's: zf_log calls the callback on
\* the thread that logs).
SoloSpec == Init /\ [][ThreadNext(1)]_vars

\* Every thread that can take a step eventually takes one (the OS
\* scheduler starves no runnable thread).
FairSpec == Spec /\ \A t \in Threads : WF_vars(ThreadNext(t))


\* =====================================================================
\* Properties
\* =====================================================================
\* A thread is between the check and the unlock of fifo_wblock/fifo_rblock.
InCritical(t) ==
    pc[t] \in {"w_check", "w_copy", "w_wp", "w_used", "w_exit",
               "r_check", "r_copy", "r_rp", "r_used", "r_exit"}

Quiescent == \A t \in Threads : ~InCritical(t)

IsPrefix(s, q) == Len(s) <= Len(q) /\ SubSeq(q, 1, Len(s)) = s

AllIdle == \A t \in Threads : pc[t] = "idle"

\* C1: used always lies in 0..siz, and whenever no fifo_wblock/fifo_rblock
\* is in the middle of its critical section (so in particular whenever
\* fifo_used reads it) used equals the total length of the accepted writes
\* minus the total length of the accepted reads.
C1_UsedIsBalance ==
    /\ 0 <= used
    /\ used <= siz
    /\ Quiescent => used = Len(Cat(wlog)) - Len(Cat(rlog))

\* C1 witness: writes and reads have both been accepted and bytes remain.
C1_Witness ==
    /\ AllIdle
    /\ Len(Cat(rlog)) >= 1
    /\ used >= 1
    /\ Len(Cat(wlog)) = used + Len(Cat(rlog))

\* C5: when fifo_wblock is about to unlock and return, it returns len
\* exactly when len bytes were free at the time it took the lock; then
\* used has grown by len, the bytes held are the old ones followed by the
\* len new ones, and no cell of the old held range has changed.
C5_WriteIffRoom ==
    \A t \in Threads : pc[t] = "w_exit" =>
        LET f == frame[t]
            len == Len(f.src)
            old == HeldOf(f.pre)
        IN  /\ (f.done = len) <=> (siz - f.pre.used >= len)
            /\ f.done = len =>
                 /\ used = f.pre.used + len
                 /\ rp = f.pre.rp
                 /\ Held = old \o f.src
                 /\ \A i \in 0..(f.pre.used - 1) :
                      data[(f.pre.rp + i) % siz] =
                          f.pre.data[(f.pre.rp + i) % siz]

\* C5 witness: an accepted write that wraps past the end of storage while
\* older bytes are still held in front of it.
C5_Witness ==
    \E t \in Threads :
        /\ pc[t] = "w_exit"
        /\ frame[t].done = Len(frame[t].src)
        /\ frame[t].pre.used >= 1
        /\ frame[t].pre.wp + Len(frame[t].src) > siz

\* C6: when fifo_rblock is about to unlock and return, it returns len
\* exactly when at least len bytes were held at the time it took the lock;
\* then dest holds the oldest len bytes in order, used has shrunk by len
\* and the rest is still held in order.
C6_ReadIffHeld ==
    \A t \in Threads : pc[t] = "r_exit" =>
        LET f == frame[t]
            old == HeldOf(f.pre)
        IN  /\ (f.done = f.len) <=> (f.pre.used >= f.len)
            /\ f.done = f.len =>
                 /\ SubSeq(f.dest, 1, f.len) = SubSeq(old, 1, f.len)
                 /\ used = f.pre.used - f.len
                 /\ Held = SubSeq(old, f.len + 1, f.pre.used)

\* C6 witness: an accepted read that wraps past the end of storage and
\* leaves a byte behind.
C6_Witness ==
    \E t \in Threads :
        /\ pc[t] = "r_exit"
        /\ frame[t].done = frame[t].len
        /\ frame[t].pre.rp + frame[t].len > siz
        /\ used >= 1

\* C7: fifo_wblock and fifo_rblock return either len or 0; when they
\* return len, used has moved by exactly len; when they reject (return
\* less than len), used, rp, wp and every cell of data are as they were
\* when the lock was taken.
C7_AllOrNothing ==
    \A t \in Threads :
        /\ pc[t] = "w_exit" =>
             LET f == frame[t] IN
             /\ f.done \in {0, Len(f.src)}
             /\ f.done = Len(f.src) => used = f.pre.used + Len(f.src)
             /\ f.done # Len(f.src) => Snapshot = f.pre
        /\ pc[t] = "r_exit" =>
             LET f == frame[t] IN
             /\ f.done \in {0, f.len}
             /\ f.done = f.len => used = f.pre.used - f.len
             /\ f.done # f.len => Snapshot = f.pre

\* C7 witness: the ring is full (used = siz) and a write of one byte is
\* rejected.
C7_Witness ==
    \E t \in Threads :
        /\ pc[t] = "w_exit"
        /\ frame[t].pre.used = siz
        /\ Len(frame[t].src) = 1
        /\ frame[t].done = 0

\* C8: whenever no fifo_wblock/fifo_rblock is in its critical section, the
\* accepted writes concatenated equal the accepted reads concatenated
\* followed by the bytes still held; so once reads have taken everything
\* (used = 0) the bytes read are S1 S2 ... Sk, whatever the chunk sizes.
C8_RoundTrip ==
    Quiescent =>
        /\ Cat(wlog) = Cat(rlog) \o Held
        /\ used = 0 => Cat(rlog) = Cat(wlog)

\* C8 witness: two messages written, then read back completely in two
\* chunks whose boundary is not the boundary between the messages.
C8_Witness ==
    /\ AllIdle
    /\ used = 0
    /\ Len(wlog) = 2
    /\ Len(rlog) = 2
    /\ Len(wlog[1]) >= 1
    /\ Len(rlog[1]) >= 1
    /\ Len(rlog[2]) >= 1
    /\ Len(wlog[1]) # Len(rlog[1])


RECURSIVE IsSubseq(_, _)
IsSubseq(s, q) ==
    IF s = <<>> THEN TRUE
    ELSE IF q = <<>> THEN FALSE
    ELSE IF Head(s) = Head(q) THEN IsSubseq(Tail(s), Tail(q))
    ELSE IsSubseq(s, Tail(q))

\* A thread is inside the while loop of membuf_flush (fifo_used has
\* returned to it).
InDrainLoop(t) ==
    \/ pc[t] \in {"fl_loop", "fl_rchk", "fl_write", "fl_fail"}
    \/ /\ frame[t].caller = "fl"
       /\ pc[t] \in {"r_lock", "r_check", "r_copy", "r_rp", "r_used",
                     "r_exit"}

WaitsForLock(t) ==
    /\ pc[t] \in {"w_lock", "r_lock", "u_lock"}
    /\ mtxOwner \notin {NoThread, t}

\* C2 (as stated): the sink stream is always a prefix of the concatenation
\* of the accepted messages in the order their fifo_wblock calls took the
\* lock (so nothing is delivered twice and nothing that was not accepted
\* is delivered).
C2_SinkIsPrefix == IsPrefix(out_file, Cat(wlog))

\* C2 (amended): leaving out the "FATAL : fwrite problem" texts that
\* membuf_flush prints into out_file, the sink stream is a subsequence of
\* the concatenation of the accepted messages in lock order (enqueue
\* order, nothing twice, nothing that was not accepted); and as long as no
\* fwrite has failed it is a prefix of that concatenation.
C2_SinkInOrder ==
    /\ IsSubseq(SelectSeq(out_file, LAMBDA b : b # FATAL_WRITE), Cat(wlog))
    /\ sinkFails = 0 => IsPrefix(out_file, Cat(wlog))

\* C2 witness: two threads have both had a message accepted, one of them
\* has delivered both messages, the other is still inside its submit.
C2_Witness ==
    /\ Len(wlog) = 2
    /\ Len(wlog[1]) >= 2
    /\ out_file = Cat(wlog)
    /\ \E t \in Threads : pc[t] = "u_lock" /\ WaitsForLock(t)

\* C3: when fifo_wblock, fifo_rblock or fifo_used returns, the calling
\* thread holds the lock no more times than when it made the call.
C3_LockReleasedOnReturn ==
    [][\A t \in Threads :
          (pc[t] \in {"w_exit", "r_exit", "u_ret"} /\ pc'[t] # pc[t])
              => HeldBy(t)' <= frame[t].entryHeld]_vars

\* The number of times thread t holds the lock beyond the one hold of a
\* fifo_wblock/fifo_rblock critical section it may be in.
Leaked(t) == HeldBy(t) - (IF InCritical(t) THEN 1 ELSE 0)

\* Supporting fact for C3 and C4: a hold left behind by fifo_used is never
\* given back, whatever the thread does next.
LeakedLockStaysHeld ==
    [][\A t \in Threads : Leaked(t)' >= Leaked(t)]_vars

\* C4: with a sink that accepts every write, every call of
\* custom_output_callback or membuf_flush that has begun eventually
\* returns.
C4_SubmitReturns ==
    \A t \in Threads :
        [](sinkFails = 0) => ((pc[t] # "idle") ~> (pc[t] = "idle"))

\* C9: the fifo_rblock issued by membuf_flush always returns oneshot, the
\* "could not read fifo" text is never printed, and at most one thread at a
\* time is inside the while loop of membuf_flush.
C9_ReadNeverRejected ==
    /\ \A t \in Threads :
         pc[t] = "fl_rchk" => frame[t].ret = frame[t].oneshot
    /\ \A i \in 1..Len(out_file) : out_file[i] # FATAL_READ
    /\ Cardinality({t \in Threads : InDrainLoop(t)}) <= 1

\* C9 witness: a drain has just read a chunk while another thread's
\* submit, its message accepted, waits to start its own drain.
C9_Witness ==
    \E t, u \in Threads :
        /\ t # u
        /\ pc[t] = "fl_rchk"
        /\ frame[t].ret = frame[t].oneshot
        /\ frame[t].oneshot >= 1
        /\ pc[u] = "u_lock"
        /\ Len(wlog) = 2

\* The bytes a drain saw at its start that it has not dequeued yet.
DrainRest(t) ==
    SubSeq(frame[t].drain0, frame[t].deq + 1, Len(frame[t].drain0))

\* What C10 says of the ring after a failed fwrite, until the drain returns.
RingAfterFailure(t) ==
    /\ Held = DrainRest(t)
    /\ used = Len(frame[t].drain0) - frame[t].deq
    /\ pc'[t] \in {"fl_fail", "idle"}
    /\ <<rp, wp, used, data>>' = <<rp, wp, used, data>>

\* C10 (as stated): once an fwrite of a chunk has failed, the drain returns
\* without another fifo_rblock and without another write to the sink; the
\* chunks dequeued so far are gone from the ring and what was not dequeued
\* is still held, in order, used being reduced by the bytes dequeued.
C10_StopsAtOnce ==
    [][\A t \in Threads :
          pc[t] = "fl_fail" =>
              RingAfterFailure(t) /\ out_file' = out_file]_vars

\* C10 (amended): as above, except that the drain makes one more write to
\* the sink before it returns: the text "FATAL : fwrite problem !", which
\* may or may not arrive.
C10_StopsAfterDiagnostic ==
    [][\A t \in Threads :
          pc[t] = "fl_fail" =>
              /\ RingAfterFailure(t)
              /\ out_file' \in {out_file, Append(out_file, FATAL_WRITE)}]_vars

\* C10 witness: the fwrite of a chunk has failed part-way, the chunk is
\* gone from the ring and a byte that was not dequeued is still held.
C10_Witness ==
    \E t \in Threads :
        /\ pc[t] = "fl_fail"
        /\ frame[t].deq = MEMBUF_CHUNKS
        /\ used >= 1
        /\ Len(out_file) < frame[t].deq


\* C15: init_fifo with capacity 0, or with storage whose length differs
\* from the capacity, yields no usable ring: whenever a fifo function is
\* running, the ring has capacity > 0 and storage of exactly that length.
C15_OnlyValidRingsUsed ==
    \A t \in Threads :
        pc[t] # "idle" => siz > 0 /\ Cardinality(DOMAIN data) = siz


\* C11: a call of membuf_flush or custom_output_callback whose drain was
\* aborted (failed fwrite, or rejected fifo_rblock) hands its caller
\* something different from what a call whose drain completed hands back.
C11_FailureSurfaced ==
    \A i, j \in 1..Len(retlog) :
        (retlog[i].how = "aborted" /\ retlog[j].how = "completed")
            => retlog[i].result # retlog[j].result


\* C12 (as stated): membuf_flush asks fifo_used before every iteration of
\* its loop, and returns normally only after fifo_used returned 0.
C12_RequeriesEachIteration ==
    \A t \in Threads : pc[t] = "fl_loop" =>
        /\ frame[t].queries = frame[t].iters + 1
        /\ frame[t].remsiz = 0 => Len(frame[t].drain0) = 0

\* C12 (amended): membuf_flush asks fifo_used once, before the first
\* iteration, and loops on its local count remsiz: at the head of the loop
\* remsiz is what that one call reported minus what has been dequeued
\* since, and the drain returns normally when it has dequeued exactly the
\* bytes that one call reported.
C12_QueriesOnce ==
    \A t \in Threads : InDrainLoop(t) =>
        /\ frame[t].queries = 1
        /\ pc[t] = "fl_loop" =>
             /\ frame[t].remsiz = Len(frame[t].drain0) - frame[t].deq
             /\ frame[t].remsiz = 0 => frame[t].deq = Len(frame[t].drain0)

\* C12 witness: a drain that was told of more than one chunk of bytes is
\* about to return normally after two iterations and one call of
\* fifo_used, while another thread's submit waits for the lock.
C12_Witness ==
    \E t, u \in Threads :
        /\ pc[t] = "fl_loop"
        /\ frame[t].remsiz = 0
        /\ Len(frame[t].drain0) > MEMBUF_CHUNKS
        /\ frame[t].iters >= 2
        /\ frame[t].queries = 1
        /\ pc[u] = "w_lock"


\* custom_output_callback is testing the value fifo_wblock returned, and
\* fifo_wblock did not take the message.
Rejected(t) == pc[t] = "cb_chk" /\ frame[t].ret # Len(frame[t].src)

Range(f) == {f[i] : i \in DOMAIN f}

\* The bytes of a message before its final '\n': no other message has them.
Body(msg) == {msg[i] : i \in 1..(Len(msg) - 1)}

\* The returns of custom_output_callback that dropped their message.
Dropped == {i \in 1..Len(retlog) : retlog[i].how = "dropped"}

Off(log, i) == Len(Cat(SubSeq(log, 1, i - 1)))

\* C16: wp and rp are the total of the bytes written and read modulo siz,
\* so they run past the end of rawbuf and back to 0 again and again; and
\* whatever cells an accepted write of n bytes went to, the read that
\* takes n bytes after everything accepted before that write has been read
\* returns exactly the bytes written, in order.
C16_WrapRoundTrip ==
    Quiescent =>
        /\ wp = Len(Cat(wlog)) % siz
        /\ rp = Len(Cat(rlog)) % siz
        /\ \A i \in 1..Len(wlog) : \A j \in 1..Len(rlog) :
             (Off(wlog, i) = Off(rlog, j) /\ Len(wlog[i]) = Len(rlog[j]))
                 => rlog[j] = wlog[i]

\* A write of the log went to cells on both sides of the end of rawbuf.
Wraps(log, i) == (Off(log, i) % siz) + Len(log[i]) > siz

\* C16 witness: an accepted write that started in the last cell went on
\* at cell 0, and a read of the same length at the same offset has
\* returned its bytes.
C16_Witness ==
    /\ AllIdle
    /\ \E i \in 1..Len(wlog) : \E j \in 1..Len(rlog) :
         /\ Off(wlog, i) = Off(rlog, j)
         /\ Len(wlog[i]) = Len(rlog[j])
         /\ Len(wlog[i]) >= 2
         /\ Off(wlog, i) % siz = siz - 1
         /\ Wraps(wlog, i)
         /\ rlog[j] = wlog[i]


\* rp and wp are cell numbers of the ring and wp is used cells after rp.
Consistent ==
    /\ rp \in 0..(siz - 1)
    /\ wp \in 0..(siz - 1)
    /\ wp = (rp + used) % siz

\* Thread t is at a point where it reads used, rp or wp: the check of
\* fifo_wblock / fifo_rblock or the return statement of fifo_used.
Observes(t) == pc[t] \in {"w_check", "r_check", "u_ret"}

\* C17: whenever no thread is between the lock and the unlock of
\* fifo_wblock or fifo_rblock, and whenever a fifo function reads the
\* fields, rp and wp are in 0..siz-1 and wp = (rp + used) mod siz; at most
\* one thread is between lock and unlock, so the states in which only some
\* of the fields have been stored are seen by no other thread.
C17_TripleConsistent ==
    /\ Quiescent => Consistent
    /\ \A t \in Threads : Observes(t) => Consistent
    /\ Cardinality({t \in Threads : InCritical(t)}) <= 1

\* C17 witness: fifo_wblock has stored wp and not yet used, the three
\* fields do not agree, and another thread's fifo call waits for the lock.
C17_Witness ==
    \E t, u \in Threads :
        /\ pc[t] = "w_used"
        /\ ~Consistent
        /\ WaitsForLock(u)


\* The messages of the calls of custom_output_callback that have returned
\* without dropping their message, in order.
RECURSIVE Kept(_)
Kept(log) ==
    IF log = <<>> THEN <<>>
    ELSE IF Head(log).how = "dropped" THEN Kept(Tail(log))
    ELSE <<Head(log).msg>> \o Kept(Tail(log))

\* C18: with one thread and as long as no fwrite has failed, the ring is
\* empty whenever no call is running (so every time
\* custom_output_callback has returned); a message is dropped exactly when
\* it is longer than siz, at the time fifo_wblock answers and in the record
\* of the returns; and when a call has returned the sink holds, in full and
\* in order, every message that was not dropped.
C18_SoloEmptyOnReturn ==
    sinkFails = 0 =>
        /\ pc[1] = "idle" =>
             /\ used = 0
             /\ out_file = Cat(Kept(retlog))
             /\ out_file = Cat(wlog)
        /\ pc[1] = "cb_chk" =>
             (Rejected(1) <=> Len(frame[1].src) > siz)
        /\ \A i \in 1..Len(retlog) :
             /\ retlog[i].how \in {"dropped", "completed"}
             /\ retlog[i].how = "dropped" <=> Len(retlog[i].msg) > siz

\* C18 witness: the one thread has had a message longer than siz dropped
\* and a message of exactly siz bytes delivered, and both calls have
\* returned.
C18_Witness ==
    /\ pc[1] = "idle"
    /\ sinkFails = 0
    /\ Len(retlog) = 2
    /\ retlog[1].how = "dropped"
    /\ retlog[2].how = "completed"
    /\ Len(retlog[2].msg) = siz
    /\ out_file = retlog[2].msg


\* ceil(h / MEMBUF_CHUNKS)
Chunks(h) == (h + MEMBUF_CHUNKS - 1) \div MEMBUF_CHUNKS

\* The last n entries of a sequence.
LastN(s, n) == SubSeq(s, Len(s) - n + 1, Len(s))

\* C19: a drain that was told of h bytes by fifo_used begins at most
\* ceil(h / MEMBUF_CHUNKS) iterations; every iteration begun asks for at
\* least one byte, never waits for the lock (the thread owns it since
\* fifo_used) and every iteration finished has taken a whole chunk out
\* of the ring (after k iterations min(k * MEMBUF_CHUNKS, h) bytes are
\* dequeued); and when the loop ends, which it does only if every fwrite
\* was complete, exactly the h bytes have been dequeued and are the last h
\* bytes of the sink, whatever other threads have submitted meanwhile.
C19_DrainBounded ==
    \A t \in Threads : InDrainLoop(t) =>
        LET f == frame[t]
            h == Len(f.drain0)
        IN  /\ f.iters <= Chunks(h)
            /\ f.iters >= 1 => f.oneshot >= 1
            /\ ~WaitsForLock(t)
            /\ pc[t] = "fl_loop" =>
                 /\ f.deq = Min(f.iters * MEMBUF_CHUNKS, h)
                 /\ f.remsiz = h - f.deq
                 /\ f.remsiz = 0 =>
                      /\ f.deq = h
                      /\ f.iters = Chunks(h)
                      /\ LastN(out_file, h) = f.drain0

\* C19 witness: a drain told of more than one chunk has finished its last
\* iteration and is about to return, and another thread has made a call
\* in the meantime that waits for the lock.
C19_Witness ==
    \E t, u \in Threads :
        /\ pc[t] = "fl_loop"
        /\ frame[t].remsiz = 0
        /\ Len(frame[t].drain0) = siz
        /\ frame[t].iters = Chunks(siz)
        /\ frame[t].iters >= 2
        /\ WaitsForLock(u)
        /\ sinkFails = 0

\* C20: in every iteration of the drain loop the length asked of
\* fifo_rblock is min(remsiz, MEMBUF_CHUNKS), between 1 and MEMBUF_CHUNKS;
\* tempbuf has MEMBUF_CHUNKS cells, fifo_rblock is asked for no more than
\* that and returns no more, and the fwrite of the chunk is given between
\* 1 and MEMBUF_CHUNKS bytes.
C20_ChunkClamped ==
    \A t \in Threads :
        (InDrainLoop(t) /\ pc[t] \notin {"fl_loop", "fl_fail"}) =>
            LET f == frame[t] IN
            /\ f.oneshot = Min(f.remsiz, MEMBUF_CHUNKS)
            /\ f.oneshot >= 1
            /\ f.oneshot <= MEMBUF_CHUNKS
            /\ f.len = f.oneshot
            /\ Len(f.dest) = MEMBUF_CHUNKS
            /\ f.done <= Len(f.dest)
            /\ pc[t] = "fl_write" => f.ret \in 1..MEMBUF_CHUNKS

\* C20 witness: more than MEMBUF_CHUNKS bytes are still to drain and the
\* chunk about to be written to the sink has exactly MEMBUF_CHUNKS bytes.
C20_Witness ==
    \E t \in Threads :
        /\ pc[t] = "fl_write"
        /\ frame[t].remsiz > MEMBUF_CHUNKS
        /\ frame[t].oneshot = MEMBUF_CHUNKS
        /\ frame[t].ret = MEMBUF_CHUNKS

=============================================================================
